---- MODULE Spec2Model ----
(***************************************************************************)
(* Model of .github/tools/tpu_nightly.py: a command-line tool that reads   *)
(* or rewrites the nightly date (.devYYYYMMDD) pinned on the torch,        *)
(* torchvision and torch_xla lines of a requirements file.                 *)
(*                                                                         *)
(* Text is a sequence of one-character strings.  The three regular         *)
(* expressions and str.splitlines are modelled character by character.     *)
(* The platform is POSIX (os.linesep = "\n").  File-system calls other     *)
(* than a missing requirements file do not fail, and the requirements      *)
(* file, its .tmp sibling, the --out-env file and the --json-out file are  *)
(* four distinct paths.                                                    *)
(***************************************************************************)
EXTENDS Integers, Sequences, FiniteSets, TLC

\* ------------------------------------------------------------------------
\* Bounds of the model
\* ------------------------------------------------------------------------

\* A requirements file is the concatenation of at most MaxFrags fragments.
MaxFrags == 2

\* Number of consecutive invocations of the tool on the same file.
MaxRuns == 2

\* ------------------------------------------------------------------------
\* Characters
\* ------------------------------------------------------------------------

Digits == {"0","1","2","3","4","5","6","7","8","9"}

Letters ==
    {"a","b","c","d","e","f","g","h","i","j","k","l","m",
     "n","o","p","q","r","s","t","u","v","w","x","y","z"}

\* \w of the re module, restricted to the characters of the model
WordChars == Digits \cup Letters \cup {"_"}

\* \s of the re module, restricted to the characters of the model
SpaceChars == {" ", "\t", "\n", "\r", "\f"}

\* the characters str.splitlines breaks a line at ("\f" stands for the
\* breaks other than CR and LF: \v \f \x1c \x1d \x1e \x85    )
LineBreaks == {"\n", "\r", "\f"}

\* {8} in DATE_PAT and DATE_ONLY
DateLen == 8

\* the least index j >= i of s with s[j] \in chars, Len(s) + 1 if none
FindChar(s, i, chars) ==
    LET found == {j \in i..Len(s) : s[j] \in chars}
    IN  IF found = {} THEN Len(s) + 1
        ELSE CHOOSE j \in found : \A k \in found : j <= k

\* the literal lit occurs in s at index i
StartsWithAt(s, i, lit) ==
    /\ i + Len(lit) - 1 <= Len(s)
    /\ \A k \in 1..Len(lit) : s[i + k - 1] = lit[k]

\* the characters s[i], ..., s[i+n-1] exist and are all ASCII digits
DigitsAt(s, i, n) ==
    /\ i + n - 1 <= Len(s)
    /\ \A k \in i..(i + n - 1) : s[k] \in Digits

\* ------------------------------------------------------------------------
\* The three patterns
\* ------------------------------------------------------------------------

\* index of the first character of s at or after i that is not whitespace
RECURSIVE SkipSpace(_, _)
SkipSpace(s, i) ==
    IF i <= Len(s) /\ s[i] \in SpaceChars THEN SkipSpace(s, i + 1) ELSE i

\* \b between s[k-1] and s[k]
WordBoundary(s, k) ==
    LET before == k - 1 >= 1 /\ k - 1 <= Len(s) /\ s[k - 1] \in WordChars
        after  == k >= 1 /\ k <= Len(s) /\ s[k] \in WordChars
    IN  before # after

LitTorch == <<"t","o","r","c","h">>
LitVision == <<"v","i","s","i","o","n">>
LitEqEq == <<"=","=">>
LitTorchXla == <<"t","o","r","c","h","_","x","l","a">>
LitDotDev == <<".","d","e","v">>

\* SCOPE_LINE.search(line): ^\s*(?:torch(?:vision)?==|torch_xla)\b
\* \s* is greedy, yet no alternative begins with whitespace, so only the
\* longest run of whitespace can be followed by a match.
SCOPE_LINE(line) ==
    LET i == SkipSpace(line, 1)
        j == i + Len(LitTorch)
        v == j + Len(LitVision)
    IN  \/ /\ StartsWithAt(line, i, LitTorch)
           /\ \/ /\ StartsWithAt(line, j, LitVision)
                 /\ StartsWithAt(line, v, LitEqEq)
                 /\ WordBoundary(line, v + Len(LitEqEq))
              \/ /\ StartsWithAt(line, j, LitEqEq)
                 /\ WordBoundary(line, j + Len(LitEqEq))
        \/ /\ StartsWithAt(line, i, LitTorchXla)
           /\ WordBoundary(line, i + Len(LitTorchXla))

\* DATE_PAT matches at index i of s: \.dev([0-9]{8})
DateAt(s, i) ==
    /\ StartsWithAt(s, i, LitDotDev)
    /\ DigitsAt(s, i + Len(LitDotDev), DateLen)

\* length of a DATE_PAT match
TokenLen == Len(LitDotDev) + DateLen

\* DATE_PAT.search(s) from index i: the index of the leftmost match, 0 if none
DateSearch(s, i) ==
    LET found == {j \in i..Len(s) : DateAt(s, j)}
    IN  IF found = {} THEN 0
        ELSE CHOOSE j \in found : \A k \in found : j <= k

\* DATE_ONLY.fullmatch(s): ^[0-9]{8}$
DATE_ONLY(s) == Len(s) = DateLen /\ DigitsAt(s, 1, DateLen)

\* ------------------------------------------------------------------------
\* str.splitlines, "\n".join, and the newline translation of text files
\* ------------------------------------------------------------------------

\* txt.splitlines(keepends=False), the lines of s[i..]: a line runs up to
\* the next break, "\r\n" is one break, and nothing follows the break that
\* ends the text (no final empty line)
RECURSIVE SplitFrom(_, _)
SplitFrom(s, i) ==
    IF i > Len(s) THEN <<>>
    ELSE LET eol  == FindChar(s, i, LineBreaks)
             next == IF eol > Len(s) THEN eol
                     ELSE IF s[eol] = "\r" /\ eol < Len(s) /\ s[eol + 1] = "\n"
                          THEN eol + 2
                          ELSE eol + 1
         IN  <<SubSeq(s, i, eol - 1)>> \o SplitFrom(s, next)

SplitLines(s) == SplitFrom(s, 1)

\* "\n".join(lines)
RECURSIVE JoinLines(_)
JoinLines(lines) ==
    IF lines = <<>> THEN <<>>
    ELSE IF Len(lines) = 1 THEN lines[1]
    ELSE lines[1] \o <<"\n">> \o JoinLines(Tail(lines))

\* txt.endswith("\n")
EndsWithNewline(s) == Len(s) > 0 /\ s[Len(s)] = "\n"

\* reading in text mode with newline=None: "\r\n" and "\r" become "\n"
RECURSIVE UniversalNewlines(_, _)
UniversalNewlines(s, i) ==
    LET cr == FindChar(s, i, {"\r"})
    IN  IF cr > Len(s) THEN SubSeq(s, i, Len(s))
        ELSE SubSeq(s, i, cr - 1) \o <<"\n">> \o
             UniversalNewlines(s, IF cr < Len(s) /\ s[cr + 1] = "\n"
                                  THEN cr + 2 ELSE cr + 1)

\* os.linesep of the platform
LineSep == <<"\n">>

\* writing in text mode with newline=None: "\n" becomes os.linesep
RECURSIVE TranslateFrom(_, _)
TranslateFrom(s, i) ==
    LET lf == FindChar(s, i, {"\n"})
    IN  IF lf > Len(s) THEN SubSeq(s, i, Len(s))
        ELSE SubSeq(s, i, lf - 1) \o LineSep \o TranslateFrom(s, lf + 1)

TranslateOnWrite(s) == TranslateFrom(s, 1)

\* ------------------------------------------------------------------------
\* detect_first_date and patch_dates
\* ------------------------------------------------------------------------

\* DateGroup as if the whole match, m.group(0), were returned
DateGroupWholeMatch(s, i) ==
    SubSeq(s, i, i + TokenLen - 1)

\* m.group(1) of the DATE_PAT match at index i
DateGroup(s, i) ==
    SubSeq(s, i + Len(LitDotDev), i + TokenLen - 1)

\* the loop of detect_first_date over lines[k..]
RECURSIVE DetectFrom(_, _)
DetectFrom(lines, k) ==
    IF k > Len(lines) THEN <<>>
    ELSE IF SCOPE_LINE(lines[k]) /\ DateSearch(lines[k], 1) # 0
         THEN DateGroup(lines[k], DateSearch(lines[k], 1))
         ELSE DetectFrom(lines, k + 1)

\* detect_first_date as if the SCOPE_LINE test were missing
DetectUnscoped(txt) ==
    LET lines == SplitLines(txt)
        hits  == {k \in 1..Len(lines) : DateSearch(lines[k], 1) # 0}
        first == CHOOSE k \in hits : \A j \in hits : k <= j
    IN  IF hits = {} THEN <<>>
        ELSE DateGroup(lines[first], DateSearch(lines[first], 1))

detect_first_date(txt) == DetectFrom(SplitLines(txt), 1)

\* DATE_PAT.subn('.dev' + nightly, line) from index i on: the leftmost
\* non-overlapping matches are replaced; returns the new text and the count
RECURSIVE SubnFrom(_, _, _)
SubnFrom(line, i, nightly) ==
    LET m == DateSearch(line, i)
    IN  IF m = 0 THEN [text |-> SubSeq(line, i, Len(line)), n |-> 0]
        ELSE LET rest == SubnFrom(line, m + TokenLen, nightly)
             IN  [text |-> SubSeq(line, i, m - 1) \o LitDotDev \o nightly
                           \o rest.text,
                  n    |-> rest.n + 1]

\* one iteration of the loop of patch_dates: the line appended to out_lines
\* and the increment of replaced
PatchLine(line, nightly) ==
    IF SCOPE_LINE(line) THEN SubnFrom(line, 1, nightly)
    ELSE [text |-> line, n |-> 0]

\* out_lines after the loop
OutLines(lines, nightly) ==
    [k \in 1..Len(lines) |-> PatchLine(lines[k], nightly).text]

\* replaced after the loop
RECURSIVE Replaced(_, _)
Replaced(lines, nightly) ==
    IF lines = <<>> THEN 0
    ELSE PatchLine(Head(lines), nightly).n + Replaced(Tail(lines), nightly)

\* the newline appended by the return statement of patch_dates
TrailingNewline(txt) == IF EndsWithNewline(txt) THEN <<"\n">> ELSE <<>>

\* patch_dates as if the joined lines were closed by "\n" before the
\* trailing newline of the input is restored
PatchDatesExtraNewline(txt, nightly) ==
    LET lines == SplitLines(txt)
    IN  [text |-> JoinLines(OutLines(lines, nightly)) \o <<"\n">>
                  \o TrailingNewline(txt),
         n    |-> Replaced(lines, nightly)]

patch_dates(txt, nightly) ==
    LET lines == SplitLines(txt)
    IN  [text |-> JoinLines(OutLines(lines, nightly)) \o TrailingNewline(txt),
         n    |-> Replaced(lines, nightly)]

\* ------------------------------------------------------------------------
\* Inputs: requirements files and command lines
\* ------------------------------------------------------------------------

\* 'torch==2.dev20240101'
LineTorch ==
    <<"t","o","r","c","h","=","=","2",".","d","e","v","2","0","2","4","0","1","0","1">>

\* ' torch_xla.dev20240102.dev20240103'
LineXla ==
    <<" ","t","o","r","c","h","_","x","l","a",".","d","e","v","2","0","2","4","0","1","0","2",".","d","e","v","2","0","2","4","0","1","0","3">>

\* 'torch==.dev20240105\n'
LineNoBoundary ==
    <<"t","o","r","c","h","=","=",".","d","e","v","2","0","2","4","0","1","0","5","\n">>

\* 'torchvision==0.dev2024010'
LineShortDate ==
    <<"t","o","r","c","h","v","i","s","i","o","n","=","=","0",".","d","e","v","2","0","2","4","0","1","0">>

\* the pieces requirements files are made of: a scoped line with one token,
\* an indented scoped line with two tokens, a line with a token that is out
\* of scope because \b fails after torch== (with its newline), a scoped line
\* whose date has seven digits, and the line breaks LF, CR, FF
Fragments ==
    {LineTorch, LineXla, LineNoBoundary, LineShortDate,
     <<"\n">>, <<"\r">>, <<"\f">>}

\* the texts made of at most n fragments
RECURSIVE Documents(_)
Documents(n) ==
    IF n = 0 THEN {<<>>}
    ELSE LET shorter == Documents(n - 1)
         IN  shorter \cup {d \o f : d \in shorter, f \in Fragments}

\* a path that does not exist, and a file with content d
NoFile == [exists |-> FALSE, data |-> <<>>]

File(d) == [exists |-> TRUE, data |-> d]

\* an option that was not given (None), and one given with value v
None == [given |-> FALSE, val |-> <<>>]

Some(v) == [given |-> TRUE, val |-> v]

\* truth value of an optional string: None and "" are false
Truthy(opt) == opt.given /\ opt.val # <<>>

\* the values of --set-date: absent, empty, seven digits, the date already
\* pinned on LineTorch, and a new date
SetDates ==
    {None,
     Some(<<>>),
     Some(<<"2","0","2","4","0","3","1">>),
     Some(<<"2","0","2","4","0","1","0","1">>),
     Some(<<"2","0","2","4","0","3","1","5">>)}

\* argparse namespace; --file keeps its default, out_env and json_out tell
\* whether the option was given
ArgSets ==
    [set_date : SetDates, no_write : BOOLEAN,
     out_env : BOOLEAN, json_out : BOOLEAN]

\* default of --file
ReqPath == "requirements/tpu.txt"

\* what the previous invocation left behind (valid = FALSE: there was none)
NoPrev ==
    [valid |-> FALSE, no_write |-> FALSE, exitCode |-> -1, stdout |-> <<>>,
     envFile |-> NoFile, jsonFile |-> NoFile, file0 |-> NoFile,
     reqFile |-> NoFile, tmpWritten |-> FALSE]

\* ------------------------------------------------------------------------
\* State
\* ------------------------------------------------------------------------

VARIABLES
    args,        \* the parsed command line
    reqFile,     \* the file at --file
    tmpFile,     \* its sibling with suffix .tmp
    envFile,     \* the file at --out-env
    jsonFile,    \* the file at --json-out
    stdout,      \* the results printed
    pc,          \* position in main
    exitCode,    \* exit status, -1 while running
    txt,         \* locals of main
    nightly,
    new_txt,
    nrep,
    patched,
    reqRead,     \* the requirements file was opened for reading in this run
    tmpWritten,  \* the .tmp sibling was opened for writing in this run
    run,         \* number of the current invocation
    file0,       \* the requirements file when this invocation began
    prev         \* record of the previous invocation

vars ==
    <<args, reqFile, tmpFile, envFile, jsonFile, stdout, pc, exitCode, txt,
      nightly, new_txt, nrep, patched, reqRead, tmpWritten, run, file0, prev>>

files == <<reqFile, tmpFile, envFile, jsonFile, stdout>>

locals == <<txt, nightly, new_txt, nrep, patched>>

history == <<args, run, file0, prev>>

Init ==
    /\ args \in ArgSets
    /\ reqFile \in {NoFile} \cup {File(d) : d \in Documents(MaxFrags)}
    /\ tmpFile = NoFile
    /\ envFile = NoFile
    /\ jsonFile = NoFile
    /\ stdout = <<>>
    /\ pc = "read"
    /\ exitCode = -1
    /\ txt = <<>>
    /\ nightly = <<>>
    /\ new_txt = <<>>
    /\ nrep = 0
    /\ patched = FALSE
    /\ reqRead = FALSE
    /\ tmpWritten = FALSE
    /\ run = 1
    /\ file0 = reqFile
    /\ prev = NoPrev

\* sys.exit(code)
Exit(code) ==
    /\ pc' = "done"
    /\ exitCode' = code

\* ------------------------------------------------------------------------
\* main, statement by statement
\* ------------------------------------------------------------------------

\* txt = read_text(req_path), the file is missing: exit status 2
ReadMissing ==
    /\ pc = "read"
    /\ ~reqFile.exists
    /\ Exit(2)
    /\ UNCHANGED <<files, locals, reqRead, tmpWritten, history>>

\* txt = read_text(req_path)
ReadText ==
    /\ pc = "read"
    /\ reqFile.exists
    /\ txt' = UniversalNewlines(reqFile.data, 1)
    /\ reqRead' = TRUE
    /\ pc' = "mode"
    /\ UNCHANGED <<files, exitCode, nightly, new_txt, nrep, patched,
                   tmpWritten, history>>

\* if args.set_date: the value does not match DATE_ONLY: exit status 1
BadDate ==
    /\ pc = "mode"
    /\ Truthy(args.set_date)
    /\ ~DATE_ONLY(args.set_date.val)
    /\ Exit(1)
    /\ UNCHANGED <<files, locals, reqRead, tmpWritten, history>>

\* if args.set_date: nightly = args.set_date; new_txt, nrep = patch_dates(..)
\* and the test that guards write_text_atomic
PatchDates ==
    /\ pc = "mode"
    /\ Truthy(args.set_date)
    /\ DATE_ONLY(args.set_date.val)
    /\ LET res == patch_dates(txt, args.set_date.val)
       IN  /\ nightly' = args.set_date.val
           /\ new_txt' = res.text
           /\ nrep' = res.n
           /\ pc' = IF ~args.no_write /\ res.text # txt
                    THEN "tmp_open" ELSE "patched"
    /\ UNCHANGED <<files, exitCode, txt, patched, reqRead, tmpWritten,
                   history>>

\* OpenTmp as if tmp were the requirements path itself: the target is
\* truncated in place
OpenTarget ==
    /\ pc = "tmp_open"
    /\ reqFile' = File(<<>>)
    /\ tmpFile' = File(<<>>)
    /\ tmpWritten' = TRUE
    /\ pc' = "tmp_write"
    /\ UNCHANGED <<envFile, jsonFile, stdout, exitCode, locals, reqRead,
                   history>>

\* write_text_atomic: tmp.write_text opens the sibling, truncating it
OpenTmp ==
    /\ pc = "tmp_open"
    /\ tmpFile' = File(<<>>)
    /\ tmpWritten' = TRUE
    /\ pc' = "tmp_write"
    /\ UNCHANGED <<reqFile, envFile, jsonFile, stdout, exitCode, locals,
                   reqRead, history>>

\* write_text_atomic: part of the data has reached the sibling
WriteTmp ==
    /\ pc = "tmp_write"
    /\ LET data == TranslateOnWrite(new_txt)
       IN  tmpFile' = File(SubSeq(data, 1, Len(data) \div 2))
    /\ pc' = "tmp_close"
    /\ UNCHANGED <<reqFile, envFile, jsonFile, stdout, exitCode, locals,
                   reqRead, tmpWritten, history>>

\* write_text_atomic: tmp.write_text closes the sibling, all data written
CloseTmp ==
    /\ pc = "tmp_close"
    /\ tmpFile' = File(TranslateOnWrite(new_txt))
    /\ pc' = "replace"
    /\ UNCHANGED <<reqFile, envFile, jsonFile, stdout, exitCode, locals,
                   reqRead, tmpWritten, history>>

\* write_text_atomic: os.replace(tmp, p)
Replace ==
    /\ pc = "replace"
    /\ reqFile' = tmpFile
    /\ tmpFile' = NoFile
    /\ pc' = "patched"
    /\ UNCHANGED <<envFile, jsonFile, stdout, exitCode, locals, reqRead,
                   tmpWritten, history>>

\* SetPatched as if patched told whether the file was rewritten
SetPatchedIfWritten ==
    /\ pc = "patched"
    /\ patched' = tmpWritten
    /\ pc' = "env"
    /\ UNCHANGED <<files, exitCode, txt, nightly, new_txt, nrep, reqRead,
                   tmpWritten, history>>

\* patched = (nrep > 0)
SetPatched ==
    /\ pc = "patched"
    /\ patched' = (nrep > 0)
    /\ pc' = "env"
    /\ UNCHANGED <<files, exitCode, txt, nightly, new_txt, nrep, reqRead,
                   tmpWritten, history>>

\* DetectNone as if the exports file were written before the test of nightly
DetectNoneAfterEnv ==
    /\ pc = "mode"
    /\ ~Truthy(args.set_date)
    /\ detect_first_date(txt) = <<>>
    /\ envFile' = IF args.out_env THEN File(<<>>) ELSE envFile
    /\ Exit(1)
    /\ UNCHANGED <<reqFile, tmpFile, jsonFile, stdout, locals, reqRead,
                   tmpWritten, history>>

\* else: nightly = detect_first_date(txt), nothing found: exit status 1
DetectNone ==
    /\ pc = "mode"
    /\ ~Truthy(args.set_date)
    /\ detect_first_date(txt) = <<>>
    /\ Exit(1)
    /\ UNCHANGED <<files, locals, reqRead, tmpWritten, history>>

\* else: nightly = detect_first_date(txt); patched = False
Detect ==
    /\ pc = "mode"
    /\ ~Truthy(args.set_date)
    /\ detect_first_date(txt) # <<>>
    /\ nightly' = detect_first_date(txt)
    /\ patched' = FALSE
    /\ pc' = "env"
    /\ UNCHANGED <<files, exitCode, txt, new_txt, nrep, reqRead, tmpWritten,
                   history>>

\* f'export VLLM_NIGHTLY_DATE="{nightly}"\n'
EnvText(date) ==
    <<"e","x","p","o","r","t"," ","V","L","L","M","_","N","I","G","H","T",
      "L","Y","_","D","A","T","E","=","\"">> \o date \o <<"\"","\n">>

\* if args.out_env: write the exports file
OutEnv ==
    /\ pc = "env"
    /\ envFile' = IF args.out_env THEN File(TranslateOnWrite(EnvText(nightly)))
                  ELSE envFile
    /\ pc' = "json"
    /\ UNCHANGED <<reqFile, tmpFile, jsonFile, stdout, exitCode, locals,
                   reqRead, tmpWritten, history>>

\* the dict serialised by json.dumps
Result(date, flag) ==
    [nightly_date |-> <<"d","e","v">> \o date,
     patched      |-> flag,
     file         |-> ReqPath]

\* the result goes to --json-out or to stdout; main returns, exit status 0
EmitJson ==
    /\ pc = "json"
    /\ IF args.json_out
       THEN /\ jsonFile' = File(<<Result(nightly, patched)>>)
            /\ UNCHANGED stdout
       ELSE /\ stdout' = Append(stdout, Result(nightly, patched))
            /\ UNCHANGED jsonFile
    /\ Exit(0)
    /\ UNCHANGED <<reqFile, tmpFile, envFile, locals, reqRead, tmpWritten,
                   history>>

\* After a successful invocation the tool is invoked again on the same
\* requirements file with the same options, this time without --no-write,
\* and with empty output paths.  (A failed invocation leaves the files as
\* they were, so invoking again after it is an initial state.)
Rerun ==
    /\ pc = "done"
    /\ exitCode = 0
    /\ run < MaxRuns
    /\ args' = [args EXCEPT !.no_write = FALSE]
    /\ prev' = [valid |-> TRUE, no_write |-> args.no_write,
                exitCode |-> exitCode, stdout |-> stdout,
                envFile |-> envFile, jsonFile |-> jsonFile,
                file0 |-> file0, reqFile |-> reqFile,
                tmpWritten |-> tmpWritten]
    /\ run' = run + 1
    /\ file0' = reqFile
    /\ envFile' = NoFile
    /\ jsonFile' = NoFile
    /\ stdout' = <<>>
    /\ pc' = "read"
    /\ exitCode' = -1
    /\ txt' = <<>>
    /\ nightly' = <<>>
    /\ new_txt' = <<>>
    /\ nrep' = 0
    /\ patched' = FALSE
    /\ reqRead' = FALSE
    /\ tmpWritten' = FALSE
    /\ UNCHANGED <<reqFile, tmpFile>>

Next ==
    \/ ReadMissing
    \/ ReadText
    \/ BadDate
    \/ PatchDates
    \/ OpenTmp
    \/ WriteTmp
    \/ CloseTmp
    \/ Replace
    \/ SetPatched
    \/ DetectNone
    \/ Detect
    \/ OutEnv
    \/ EmitJson
    \/ Rerun

Spec == Init /\ [][Next]_vars

TypeOK ==
    /\ pc \in {"read", "mode", "tmp_open", "tmp_write", "tmp_close",
               "replace", "patched", "env", "json", "done"}
    /\ exitCode \in {-1, 0, 1, 2}
    /\ run \in 1..MaxRuns
    /\ nrep \in Nat
    /\ patched \in BOOLEAN

\* ------------------------------------------------------------------------
\* Properties
\* ------------------------------------------------------------------------

\* --set-date was given a value that DATE_ONLY accepts
ValidDate == args.set_date.given /\ DATE_ONLY(args.set_date.val)

\* --set-date was given a value that is not exactly 8 decimal digits
InvalidDate == args.set_date.given /\ ~DATE_ONLY(args.set_date.val)

\* patch_dates has returned in this run: new_txt and nrep are assigned
Patched ==
    /\ ValidDate
    /\ pc \in {"tmp_open", "tmp_write", "tmp_close", "replace", "patched",
               "env", "json"} \/ (pc = "done" /\ exitCode = 0)

\* the run has ended with exit status 0
Succeeded == pc = "done" /\ exitCode = 0

\* no output of this run exists: no result on stdout or at --json-out, no
\* exports file, no .tmp sibling, the requirements file as it was
NothingWritten ==
    /\ stdout = <<>>
    /\ jsonFile = NoFile
    /\ envFile = NoFile
    /\ ~tmpWritten
    /\ reqFile = file0

\* C1: whenever --set-date has a value that is not exactly 8 digits, the
\* requirements file is never read, nothing is written, and the run ends
\* with exit status 1, whether the requirements file exists or not.
C1_BadDateFailsBeforeAnyFile ==
    InvalidDate =>
        /\ ~reqRead
        /\ NothingWritten
        /\ pc = "done" => exitCode = 1

\* C2: the text returned by patch_dates has as many lines as the input, and
\* every line of the input that is not scoped is found unaltered at the same
\* position of the output.
C2_UnscopedLinesVerbatim ==
    Patched =>
        LET before == SplitLines(txt)
            after  == SplitLines(new_txt)
        IN  /\ Len(after) = Len(before)
            /\ \A k \in 1..Len(before) :
                   ~SCOPE_LINE(before[k]) => after[k] = before[k]

\* C3 as stated: for every document, detect_first_date of the text returned
\* by patch_dates(document, D) is D.
C3_RoundTripEveryDocument ==
    Patched => detect_first_date(new_txt) = nightly

\* C3 as amended: when patch_dates replaced at least one token, detecting on
\* the text it returned yields D; when it replaced none, detecting yields
\* nothing.
C3_RoundTripWhenReplaced ==
    Patched =>
        /\ nrep > 0 => detect_first_date(new_txt) = nightly
        /\ nrep = 0 => detect_first_date(new_txt) = <<>>

\* a document whose detected date differed from D has been patched
C3_Witness ==
    /\ Patched
    /\ nrep > 0
    /\ detect_first_date(txt) # nightly
    /\ new_txt # txt

\* C4: patching the text returned by patch_dates again with the same date
\* returns the same text, and an invocation with the same --set-date on the
\* file an earlier invocation has patched never writes the requirements
\* file nor its .tmp sibling.
C4_PatchIdempotent ==
    /\ Patched => patch_dates(new_txt, nightly).text = new_txt
    /\ (run > 1 /\ prev.valid /\ ~prev.no_write /\ ValidDate) =>
           /\ ~tmpWritten
           /\ reqFile = file0
           /\ tmpFile = NoFile

\* the second invocation has ended on a file the first one rewrote
C4_Witness ==
    /\ run > 1
    /\ ~prev.no_write
    /\ prev.tmpWritten
    /\ prev.reqFile # prev.file0
    /\ ValidDate
    /\ Succeeded
    /\ patched

\* C5: the text returned by patch_dates ends with a newline exactly when
\* the input text ends with a newline.
C5_TrailingNewlinePreserved ==
    Patched => (EndsWithNewline(new_txt) <=> EndsWithNewline(txt))

\* the data write_text_atomic stores: all of the new text
NewFile == File(TranslateOnWrite(new_txt))

\* C6: the requirements path holds the complete original text until the
\* rename and the complete new text after it; the rename happens only when
\* the .tmp sibling holds the complete new text; with --no-write, or when
\* the new text equals the old one, neither the sibling nor the target is
\* written.
C6_AtomicWrite ==
    /\ \/ reqFile = file0
       \/ /\ Patched
          /\ tmpWritten
          /\ pc \in {"patched", "env", "json", "done"}
          /\ reqFile = NewFile
    /\ pc \in {"tmp_open", "tmp_write", "tmp_close", "replace"} =>
           reqFile = file0
    /\ pc = "replace" => tmpFile = NewFile
    /\ (args.no_write \/ (Patched /\ new_txt = txt)) =>
           /\ ~tmpWritten
           /\ tmpFile = NoFile
           /\ reqFile = file0

\* the .tmp sibling holds only part of a new text that differs from the
\* original while the requirements path still holds the original
C6_Witness ==
    /\ pc = "tmp_close"
    /\ tmpFile # NewFile
    /\ tmpFile.data # <<>>
    /\ reqFile = file0
    /\ file0 # NewFile

\* C7: with --no-write and a valid --set-date the requirements file stays
\* as it was, and the exit status, the result (on stdout or at --json-out)
\* and the exports file equal those of the same invocation on the same file
\* without --no-write.
C7_NoWriteSameOutputs ==
    /\ (args.no_write /\ ValidDate) => (reqFile = file0 /\ ~tmpWritten)
    /\ (run > 1 /\ prev.valid /\ prev.no_write /\ ValidDate /\ pc = "done") =>
           /\ ~args.no_write
           /\ prev.reqFile = prev.file0
           /\ file0 = prev.file0
           /\ exitCode = prev.exitCode
           /\ stdout = prev.stdout
           /\ jsonFile = prev.jsonFile
           /\ envFile = prev.envFile

\* an invocation without --no-write has rewritten the file that the
\* invocation with --no-write before it left alone
C7_Witness ==
    /\ run > 1
    /\ prev.no_write
    /\ ~prev.tmpWritten
    /\ ValidDate
    /\ Succeeded
    /\ patched
    /\ reqFile # file0

\* the requirements text holds no .dev token on a scoped line
NoScopedToken ==
    \A k \in 1..Len(SplitLines(txt)) :
        ~(SCOPE_LINE(SplitLines(txt)[k]) /\ DateSearch(SplitLines(txt)[k], 1) # 0)

\* C8: a run that ends with exit status 2 (requirements file missing) or 1
\* (bad date, or nothing detected in read mode) has written no result, no
\* exports file and has left the requirements file alone; a result is only
\* ever written by a run that ends with exit status 0.
C8_NoPartialResults ==
    /\ (pc = "done" /\ exitCode \in {1, 2}) => NothingWritten
    /\ (pc = "done" /\ exitCode = 2) => ~file0.exists
    /\ (pc = "done" /\ exitCode = 1) =>
           /\ file0.exists
           /\ InvalidDate \/ (~Truthy(args.set_date) /\ NoScopedToken)
    /\ (stdout # <<>> \/ jsonFile # NoFile) => Succeeded

\* a run asked for an exports file and a JSON file and failed in read mode
C8_Witness ==
    /\ pc = "done"
    /\ exitCode = 1
    /\ ~Truthy(args.set_date)
    /\ args.out_env
    /\ args.json_out
    /\ reqRead

\* the token at index p of line k is the first token of the first scoped
\* line that holds a token
FirstScopedToken(lines, k, p) ==
    /\ SCOPE_LINE(lines[k])
    /\ DateAt(lines[k], p)
    /\ \A q \in 1..(p - 1) : ~DateAt(lines[k], q)
    /\ \A j \in 1..(k - 1) :
           ~(SCOPE_LINE(lines[j]) /\ \E q \in 1..Len(lines[j]) : DateAt(lines[j], q))

\* the result written by the run, when there is one
Emitted ==
    IF args.json_out THEN jsonFile.data ELSE stdout

\* C10: in patch mode, whenever the result reports patched = false the
\* requirements file is what it was before the run.
C10_UnpatchedFileUntouched ==
    (Patched /\ pc \in {"env", "json", "done"} /\ ~patched) => reqFile = file0

====
